---------------------------- MODULE Spec2Model ----------------------------
(***************************************************************************)
(* The Embedded Player Bridge of TubeBackdrop: src/App.tsx (the host        *)
(* component: player state, the window 'message' listener, the command      *)
(* channel and the user controls) and src/components/VideoBackground.tsx    *)
(* (the later of the file's two definitions, lines 92-254: the sandbox       *)
(* flag, the currentVideoId sync, the kickstart timer, the overlay).        *)
(*                                                                         *)
(* React is modelled at this grain: a handler's setState calls and the      *)
(* render they cause are one step; the passive effects (useEffect bodies    *)
(* and their cleanups) of that render run in a later step, RunEffects, as   *)
(* React flushes them after the commit.  Between the two steps the browser  *)
(* may dispatch any other task: a window message to the listener that is    *)
(* still subscribed, the kickstart timer that is still pending, a user      *)
(* event.                                                                   *)
(***************************************************************************)
EXTENDS Integers, Sequences, FiniteSets, TLC

(***************************************************************************)
(* Bounds of the model.                                                     *)
(***************************************************************************)
NumVideoIds == 2   \* distinct video identifiers the input bar can resolve to
MaxKicks == 2      \* the count of kickstart dispatches saturates here

(***************************************************************************)
(* Values.                                                                  *)
(***************************************************************************)
None == <<>>
Some(v) == <<v>>
Present(o) == o # <<>>
Get(o) == o[1]

VideoIds == 1..NumVideoIds
DefaultVideoId == 1                 \* 'n_Dv4JMiwK8'

\* The second argument of onVideoChange: a boolean, or nothing at all
\* (InputBar.handleSubmit passes the identifier only).
AutoplayArgs == {"true", "false", "undefined"}
Truthy(a) == a = "true"                \* if (videoConfig.autoplay)
PropOrTrue(a) == a # "false"           \* ({ autoplay = true }) => ...

Unstarted == -1
Ended == 0
Playing == 1
Paused == 2
Buffering == 3
Cued == 5
Lifecycles == {Unstarted, Ended, Playing, Paused, Buffering, Cued}

\* states[state] || state
states(state) ==
    CASE state = Unstarted -> "Unstarted"
      [] state = Ended     -> "Ended"
      [] state = Playing   -> "Playing"
      [] state = Paused    -> "Paused"
      [] state = Buffering -> "Buffering"
      [] state = Cued      -> "Cued"
      [] OTHER             -> ToString(state)

Volumes == {0, 100}                 \* positions of the range input used here
InitialVolume == 100

(***************************************************************************)
(* Inbound messages.  An origin is the list of the labels of its host; a    *)
(* payload arrives as a string (JSON text, which may not parse) or as an    *)
(* object; a parsed value is null or an envelope {event, info?}.            *)
(***************************************************************************)
Origins == { <<"www", "youtube", "com">>,
             <<"evil", "example">> }

\* String.prototype.includes on the joined labels: 'youtube' occurs in a
\* label that holds it.
LabelIncludesYoutube(l) == l \in {"youtube", "youtube-nocookie"}

\* Mutant: the origin is not looked at.
OriginNotChecked(origin) == TRUE

OriginIncludesYoutube(origin) ==
    \E i \in 1..Len(origin) : LabelIncludesYoutube(origin[i])

ErrorCodes == {150}
Infos == [ playerState : {None} \cup {Some(s) : s \in Lifecycles},
           muted       : {None, Some(TRUE)},
           volume      : {None, Some(0)},
           error       : {None} \cup {Some(e) : e \in ErrorCodes} ]

NoInfo == [ playerState |-> None, muted |-> None, volume |-> None, error |-> None ]

Events == {"onReady", "initialDelivery", "infoDelivery", "apiInfoDelivery"}

\* kind: "malformed" (text that JSON.parse rejects), "null", "envelope".
Values ==
    { [kind |-> "null", event |-> "", info |-> None] }
    \cup [kind : {"envelope"}, event : Events \ {"infoDelivery"}, info : {None}]
    \cup [kind : {"envelope"}, event : {"infoDelivery"},
          info : {None} \cup {Some(i) : i \in Infos}]

Malformed == [kind |-> "malformed", event |-> "", info |-> None]

\* The provider posts JSON text; the pre-parsed payloads kept here are the
\* envelopes without an info object.
Payloads ==
    [enc : {"string"}, body : {Malformed} \cup Values]
    \cup [enc : {"object"}, body : {v \in Values : v.info = None}]

Messages == [origin : Origins, data : Payloads]

\* The traffic of the specification of requests, fallback and kickstart:
\* from the provider the handshakes and the JSON text of an infoDelivery
\* that reports Playing, an error code or both; from elsewhere a handshake.
ControlMessages ==
    { m \in Messages :
        /\ m.data.enc = "string"
        /\ m.data.body.kind = "envelope"
        /\ IF OriginIncludesYoutube(m.origin)
           THEN \/ m.data.body.event \in {"onReady", "initialDelivery"}
                \/ /\ Present(m.data.body.info)
                   /\ LET i == Get(m.data.body.info)
                      IN  /\ i.muted = None /\ i.volume = None
                          /\ i.playerState \in {None, Some(Playing)}
                          /\ Present(i.playerState) \/ Present(i.error)
           ELSE m.data.body.event = "onReady" }

\* The provider's JSON is not validated: an infoDelivery may report a
\* playerState outside the six listed ones and a volume outside 0..100, and
\* each of its fields may be there or not.
WireInfos == [ playerState : {None, Some(Paused), Some(4)},
               muted       : {None, Some(TRUE), Some(FALSE)},
               volume      : {None, Some(150)},
               error       : {None} \cup {Some(e) : e \in ErrorCodes} ]

WireMessages ==
    { [origin |-> <<"www", "youtube", "com">>,
       data |-> [enc |-> "string",
                 body |-> [kind |-> "envelope", event |-> "infoDelivery",
                           info |-> Some(i)]]] : i \in WireInfos }
    \cup { [origin |-> <<"www", "youtube", "com">>,
            data |-> [enc |-> "string",
                      body |-> [kind |-> "envelope", event |-> "onReady",
                                info |-> None]]] }

(***************************************************************************)
(* Outbound commands: the envelope {event:'command', func, args}.           *)
(***************************************************************************)
Command(func, args) == [event |-> "command", func |-> func, args |-> args]


(***************************************************************************)
(* State.                                                                   *)
(***************************************************************************)
VARIABLES
    videoConfig,          \* App: {id, autoplay}
    playerState,          \* App: lifecycle, -1 0 1 2 3 5
    volume,               \* App
    isMuted,              \* App
    hasConnectionError,   \* App: fallback forced (useFallback of VideoBackground)
    isApiConnected,       \* App: the ref isApiConnected.current
    currentVideoId,       \* VideoBackground
    isSandboxed,          \* VideoBackground
    sandboxedEnvironment, \* what isSandboxedEnvironment() returns in this host
    phase,                \* "mounting": rendered, effects not yet run; "live";
                          \* "unmounted": removed, cleanups not yet run; "gone"
    listener,             \* the window 'message' subscription of App's effect:
                          \* attached, and the videoConfig its closure holds
    kickDeps,             \* dependencies of the last run of the kickstart effect
    timer,                \* the kickstart timeout: "idle" or "pending"
    subscriptions,        \* the handlers registered for 'message' on window
    recorded,             \* the history variables this specification records
    last,                 \* history: the step taken last: operation, the class
                          \* of the message it processed, the commands it posted
                          \* to the iframe, whether an exception left the handler
    errorSeen,            \* history: the attached listener has processed an
                          \* infoDelivery carrying an error code
    firstPending,         \* history: the attached listener has processed no
                          \* message yet
    optimistic,           \* history: togglePlayback wrote playerState last
    refLifecycle,         \* history: the lifecycle the message sequence reports
    kickCount,            \* history: kickstart dispatches of the current request
    cancelDue,            \* history: the pending timer has outlived a request
                          \* change, a teardown or fallback becoming forced
    scenario,             \* history: the run since the mount, while it is the
                          \* mount of an autoplay request outside a sandbox
                          \* followed by handshakes and the timer only
    lastDelivery,         \* history: the info of the infoDelivery the step
                          \* taken last applied, and the state before it
    error                 \* InputBar: the message under the input, or null

appVars == <<videoConfig, playerState, volume, isMuted, hasConnectionError,
             isApiConnected>>
bgVars == <<currentVideoId, isSandboxed, sandboxedEnvironment>>
effectVars == <<phase, listener, kickDeps, timer, subscriptions>>
historyVars == <<recorded, last, errorSeen, firstPending, optimistic,
                 refLifecycle, kickCount, cancelDue, scenario, lastDelivery>>
inputVars == <<error>>
vars == <<appVars, bgVars, effectVars, inputVars, historyVars>>

Mounted == phase \in {"mounting", "live"}

\* document.getElementById('youtube-background-player') with a contentWindow:
\* VideoBackground renders the iframe unconditionally.
IframePresent == Mounted

\* A history variable takes its new value when the specification records it.
Rec(name, new, old) == IF name \in recorded THEN new ELSE old

Step(op, cls, cmds, threw) ==
    [op |-> op, cls |-> cls, cmds |-> cmds, threw |-> threw]

NoScenario == [on |-> FALSE, ready |-> FALSE, fired |-> FALSE, plays |-> 0]

\* An operation outside the scenario ends it.
ScenarioOff == Rec("scenario", NoScenario, scenario)

(***************************************************************************)
(* Derived values of a render.                                              *)
(***************************************************************************)
\* Mutant: buffering does not count as playing.
isPlayingWithoutBuffering == playerState = Playing

isPlaying == playerState = Playing \/ playerState = Buffering

\* VideoBackground's props, as App passes them.
videoId == videoConfig.id
autoplay == PropOrTrue(videoConfig.autoplay)
useFallback == hasConnectionError
onTogglePlayDefined == ~hasConnectionError

\* Mutant: only the sandbox lets clicks through to the iframe.
allowDirectInteractionSandboxOnly == isSandboxed

allowDirectInteraction == useFallback \/ isSandboxed

InteractionMode ==
    IF allowDirectInteraction THEN "PassThrough" ELSE "Intercepted"

\* The parameters of the two locators that differ between them; origin is
\* the sandboxed preview's or not.
getEmbedUrl(id) ==
    [ id |-> id, autoplay |-> "1", mute |-> "1",
      controls |-> IF sandboxedEnvironment THEN "1" ELSE "0",
      enablejsapi |-> Some(IF sandboxedEnvironment THEN "0" ELSE "1"),
      loop |-> "1", playlist |-> id, playsinline |-> "1" ]

getSimpleEmbedUrl(id) ==
    [ id |-> id, autoplay |-> "1", mute |-> "1",
      controls |-> "0",
      enablejsapi |-> None,
      loop |-> "1", playlist |-> id, playsinline |-> "1" ]

embedUrl ==
    IF useFallback THEN getSimpleEmbedUrl(currentVideoId)
    ELSE getEmbedUrl(currentVideoId)

(***************************************************************************)
(* The command channel.                                                     *)
(***************************************************************************)
\* Mutant: the envelope is posted without looking for the iframe.
sendCommandResultUnguarded(func, args) ==
    [posted |-> << Command(func, args) >>, returned |-> TRUE]

\* One call: the envelopes it posts (one when the iframe is there, none when
\* not) and the boolean it returns.
sendCommandResult(func, args) ==
    IF IframePresent
    THEN [posted |-> << Command(func, args) >>, returned |-> TRUE]
    ELSE [posted |-> << >>, returned |-> FALSE]

\* The envelopes of one call; no caller looks at the boolean.
sendCommand(func, args) == sendCommandResult(func, args).posted

(***************************************************************************)
(* The message handler of App's listener effect.                            *)
(***************************************************************************)
\* What one run of the handler asks for: the setState calls (None: not
\* called), the write of the ref, the commands posted, an exception thrown.
NoUpdate ==
    [ playerState |-> None, isMuted |-> None, volume |-> None,
      hasConnectionError |-> None, isApiConnected |-> None,
      cmds |-> << >>, threw |-> FALSE ]

Thrown == [NoUpdate EXCEPT !.threw = TRUE]

\* if (data.info.error)
ErrorTruthy(info) == Present(info.error) /\ Get(info.error) # 0

\* Mutant: a report of Paused does not replace a lifecycle of Playing.
infoDeliveryKeepsPlaying(info) ==
    [NoUpdate EXCEPT
        !.playerState = IF playerState = Playing /\ info.playerState = Some(Paused)
                        THEN None ELSE info.playerState,
        !.isMuted = info.muted,
        !.volume = info.volume,
        !.hasConnectionError = IF ErrorTruthy(info) THEN Some(TRUE) ELSE None]

\* Mutant: volume is read only from a message that also carries muted.
infoDeliveryVolumeWithMuted(info) ==
    [NoUpdate EXCEPT
        !.playerState = info.playerState,
        !.isMuted = info.muted,
        !.volume = IF Present(info.muted) THEN info.volume ELSE None,
        !.hasConnectionError = IF ErrorTruthy(info) THEN Some(TRUE) ELSE None]

\* Mutant: a message that carries an error code keeps the lifecycle as it was.
infoDeliveryKeepsLifecycleOnError(info) ==
    [NoUpdate EXCEPT
        !.playerState = IF ErrorTruthy(info) THEN None ELSE info.playerState,
        !.isMuted = info.muted,
        !.volume = info.volume,
        !.hasConnectionError = IF ErrorTruthy(info) THEN Some(TRUE) ELSE None]

\* Mutant: an error code forces fallback only while the API is not connected.
infoDeliveryErrorUnlessConnected(info) ==
    [NoUpdate EXCEPT
        !.playerState = info.playerState,
        !.isMuted = info.muted,
        !.volume = info.volume,
        !.hasConnectionError =
            IF ErrorTruthy(info) /\ ~isApiConnected THEN Some(TRUE) ELSE None]

\* Mutant: any infoDelivery marks the connection established.
infoDeliveryMarksConnected(info) ==
    [NoUpdate EXCEPT
        !.playerState = info.playerState,
        !.isMuted = info.muted,
        !.volume = info.volume,
        !.isApiConnected = Some(TRUE),
        !.hasConnectionError = IF ErrorTruthy(info) THEN Some(TRUE) ELSE None]

infoDelivery(info) ==
    [NoUpdate EXCEPT
        !.playerState = info.playerState,
        !.isMuted = info.muted,
        !.volume = info.volume,
        !.hasConnectionError = IF ErrorTruthy(info) THEN Some(TRUE) ELSE None]

onReady(closureAutoplay) ==
    [NoUpdate EXCEPT
        !.isApiConnected = Some(TRUE),
        !.hasConnectionError = Some(FALSE),
        !.cmds = IF Truthy(closureAutoplay)
                 THEN sendCommand("playVideo", << >>) ELSE << >>]

\* Mutant: initialDelivery starts playback as onReady does.
initialDeliveryPlays ==
    [NoUpdate EXCEPT
        !.isApiConnected = Some(TRUE),
        !.hasConnectionError = Some(FALSE),
        !.cmds = sendCommand("playVideo", << >>)]

initialDelivery ==
    [NoUpdate EXCEPT
        !.isApiConnected = Some(TRUE),
        !.hasConnectionError = Some(FALSE)]

\* Mutant: the infoDelivery branch throws after its first setState.
dispatchThrowsAfterFirst(data, closureAutoplay) ==
    IF data.enc = "string" /\ data.body.kind = "malformed"
    THEN Thrown
    ELSE IF data.body.kind = "null"
    THEN Thrown
    ELSE IF data.body.event = "infoDelivery" /\ Present(data.body.info)
    THEN [NoUpdate EXCEPT !.playerState = Get(data.body.info).playerState]
    ELSE IF data.body.event = "onReady"
    THEN onReady(closureAutoplay)
    ELSE IF data.body.event = "initialDelivery"
    THEN initialDelivery
    ELSE NoUpdate

\* The body of the try block.
dispatch(data, closureAutoplay) ==
    IF data.enc = "string" /\ data.body.kind = "malformed"
    THEN Thrown                                   \* JSON.parse throws
    ELSE IF data.body.kind = "null"
    THEN Thrown                                   \* null.event throws
    ELSE IF data.body.event = "infoDelivery" /\ Present(data.body.info)
    THEN infoDelivery(Get(data.body.info))
    ELSE IF data.body.event = "onReady"
    THEN onReady(closureAutoplay)
    ELSE IF data.body.event = "initialDelivery"
    THEN initialDelivery
    ELSE NoUpdate

\* Mutant: no try/catch around the body.
tryCatchMissing(u) == u

\* try { ... } catch (e) { /* Ignore */ }
tryCatch(u) == IF u.threw THEN NoUpdate ELSE u

handleMessageResult(m, closureAutoplay) ==
    IF OriginIncludesYoutube(m.origin)
    THEN tryCatch(dispatch(m.data, closureAutoplay))
    ELSE NoUpdate

\* The shape of a message, in the words of the protocol.
Classify(m) ==
    IF \A i \in 1..Len(m.origin) : ~LabelIncludesYoutube(m.origin[i])
    THEN "foreign"
    ELSE IF m.data.body.kind = "malformed" THEN "malformed"
    ELSE IF m.data.body.kind = "null" THEN "unknown"
    ELSE IF m.data.body.event = "infoDelivery"
    THEN IF ~Present(m.data.body.info) THEN "noInfo"
         ELSE IF Present(Get(m.data.body.info).error) THEN "infoError"
         ELSE "info"
    ELSE IF m.data.body.event \in {"onReady", "initialDelivery"}
    THEN m.data.body.event
    ELSE "unknown"

(***************************************************************************)
(* Initial state: the first render is committed, no effect has run.         *)
(***************************************************************************)
InitialConfig == [id |-> DefaultVideoId, autoplay |-> "true"]

InitState ==
    /\ videoConfig = InitialConfig
    /\ playerState = Unstarted
    /\ volume = InitialVolume
    /\ isMuted = FALSE
    /\ hasConnectionError = FALSE
    /\ isApiConnected = FALSE
    /\ currentVideoId = DefaultVideoId
    /\ isSandboxed = FALSE
    /\ sandboxedEnvironment \in BOOLEAN
    /\ phase = "mounting"
    /\ listener = [attached |-> FALSE, id |-> DefaultVideoId, autoplay |-> "true"]
    /\ kickDeps = [currentVideoId |-> DefaultVideoId, useFallback |-> FALSE,
                   autoplay |-> TRUE]
    /\ timer = "idle"
    /\ subscriptions = 0
    /\ last = Step("init", "", << >>, FALSE)
    /\ errorSeen = FALSE
    /\ firstPending = FALSE
    /\ optimistic = FALSE
    /\ refLifecycle = Unstarted
    /\ kickCount = 0
    /\ cancelDue = FALSE
    /\ scenario = NoScenario
    /\ lastDelivery = None
    /\ error = None

(***************************************************************************)
(* The passive effects of the last render, flushed together: those of       *)
(* VideoBackground (the child) first, then App's.  An effect runs on mount  *)
(* and whenever one of its dependencies differs from its last run; its      *)
(* cleanup runs before it, and on unmount.                                  *)
(***************************************************************************)
isSandboxedEnvironment == sandboxedEnvironment

KickDepsNow ==
    [currentVideoId |-> currentVideoId, useFallback |-> useFallback,
     autoplay |-> autoplay]

\* Mutant: the sandbox effect never runs.
RunsSandboxEffectNever == FALSE

RunsSandboxEffect == phase = "mounting"
RunsSyncEffect == Mounted /\ videoId # currentVideoId
RunsKickstartEffect ==
    phase = "mounting" \/ (phase = "live" /\ KickDepsNow # kickDeps)
RunsListenerEffect ==
    \/ phase = "mounting"
    \/ /\ phase = "live"
       /\ \/ videoConfig.id # listener.id
          \/ videoConfig.autoplay # listener.autoplay

EffectsPending ==
    \/ RunsSandboxEffect \/ RunsSyncEffect
    \/ RunsKickstartEffect \/ RunsListenerEffect
    \/ phase = "unmounted"

\* Mutant: the effect does not look at autoplay.
kickstartSchedulesWhateverAutoplay == ~useFallback

\* if (useFallback || !autoplay) return; const timer = setTimeout(..., 1500)
kickstartSchedules == ~(useFallback \/ ~autoplay)

\* The kickstart effect: the cleanup of its last run, then its body.
kickstartEffect ==
    /\ timer' = IF kickstartSchedules THEN "pending" ELSE "idle"
    /\ kickDeps' = KickDepsNow
    /\ cancelDue' = FALSE
    /\ kickCount' =
         Rec("kickCount",
             IF \/ phase = "mounting"
                \/ kickDeps.currentVideoId # currentVideoId
                \/ kickDeps.autoplay # autoplay
             THEN 0 ELSE kickCount,
             kickCount)

\* window.removeEventListener('message', handleMessage) in the cleanup of a
\* run: there is one to run when the effect has run before.
removeEventListener == IF listener.attached THEN 1 ELSE 0

\* Mutant: the effect returns no cleanup.
listenerEffectWithoutCleanup ==
    /\ isApiConnected' = FALSE
    /\ hasConnectionError' = FALSE
    /\ listener' = [attached |-> TRUE, id |-> videoConfig.id,
                    autoplay |-> videoConfig.autoplay]
    /\ subscriptions' = subscriptions + 1
    /\ errorSeen' = FALSE
    /\ firstPending' = Rec("firstPending", TRUE, firstPending)

\* The listener effect: the cleanup of its last run, then its body.
listenerEffect ==
    /\ isApiConnected' = FALSE
    /\ hasConnectionError' = FALSE
    /\ listener' = [attached |-> TRUE, id |-> videoConfig.id,
                    autoplay |-> videoConfig.autoplay]
    /\ subscriptions' = (subscriptions - removeEventListener) + 1
    /\ errorSeen' = FALSE
    /\ firstPending' = Rec("firstPending", TRUE, firstPending)

\* The cleanups of an unmounted tree: clearTimeout, removeEventListener.
unmountCleanups ==
    /\ timer' = "idle"
    /\ listener' = [listener EXCEPT !.attached = FALSE]
    /\ subscriptions' = subscriptions - removeEventListener
    /\ cancelDue' = FALSE
    /\ UNCHANGED <<kickDeps, kickCount, hasConnectionError, isApiConnected,
                   errorSeen, firstPending>>

RunEffects ==
    /\ EffectsPending
    /\ isSandboxed' = IF RunsSandboxEffect THEN isSandboxedEnvironment
                      ELSE isSandboxed
    /\ currentVideoId' = IF RunsSyncEffect THEN videoId ELSE currentVideoId
    /\ IF phase = "unmounted"
       THEN unmountCleanups
       ELSE /\ IF RunsKickstartEffect
               THEN kickstartEffect
               ELSE UNCHANGED <<timer, kickDeps, cancelDue, kickCount>>
            /\ IF RunsListenerEffect
               THEN listenerEffect
               ELSE UNCHANGED <<isApiConnected, hasConnectionError, listener,
                                subscriptions, errorSeen, firstPending>>
    /\ phase' = IF phase = "unmounted" THEN "gone" ELSE "live"
    /\ last' = Rec("last", Step("RunEffects", "", << >>, FALSE), last)
    /\ scenario' =
         Rec("scenario",
             IF phase = "mounting"
             THEN [NoScenario EXCEPT !.on = autoplay /\ ~isSandboxedEnvironment]
             ELSE scenario,
             scenario)
    /\ lastDelivery' = None
    /\ UNCHANGED error
    /\ UNCHANGED <<videoConfig, playerState, volume, isMuted,
                   sandboxedEnvironment, recorded, optimistic, refLifecycle>>

(***************************************************************************)
(* A window 'message' event reaches the subscribed handler.  The setState   *)
(* calls of a handler that outlives its component do nothing.               *)
(***************************************************************************)
Set(o, old) == IF Mounted /\ Present(o) THEN Get(o) ELSE old

ReportsLifecycle(m) ==
    /\ Classify(m) \in {"info", "infoError"}
    /\ Present(Get(m.data.body.info).playerState)

handleMessage(m) ==
    /\ listener.attached
    /\ LET u == handleMessageResult(m, listener.autoplay)
       IN /\ playerState' = Set(u.playerState, playerState)
          /\ isMuted' = Set(u.isMuted, isMuted)
          /\ volume' = Set(u.volume, volume)
          /\ hasConnectionError' = Set(u.hasConnectionError, hasConnectionError)
          /\ isApiConnected' = IF Present(u.isApiConnected)
                               THEN Get(u.isApiConnected) ELSE isApiConnected
          /\ last' = Rec("last",
                         Step("handleMessage", Classify(m), u.cmds, u.threw),
                         last)
    /\ errorSeen' =
         Rec("errorSeen",
             errorSeen \/ (Mounted /\ Classify(m) = "infoError"), errorSeen)
    /\ firstPending' = FALSE
    /\ optimistic' =
         IF Mounted /\ ReportsLifecycle(m) THEN FALSE ELSE optimistic
    /\ refLifecycle' =
         Rec("refLifecycle",
             IF Mounted /\ ReportsLifecycle(m)
             THEN Get(Get(m.data.body.info).playerState) ELSE refLifecycle,
             refLifecycle)
    /\ cancelDue' =
         Rec("cancelDue",
             cancelDue \/ (timer = "pending" /\ ~hasConnectionError
                           /\ hasConnectionError'),
             cancelDue)
    /\ scenario' =
         Rec("scenario",
             IF ~scenario.on \/ Classify(m) \in {"foreign", "info"}
             THEN scenario
             ELSE IF Classify(m) = "onReady" /\ ~scenario.ready
             THEN [scenario EXCEPT
                     !.ready = TRUE,
                     !.plays = @ + Len(handleMessageResult(m, listener.autoplay).cmds)]
             ELSE NoScenario,
             scenario)
    /\ lastDelivery' =
         Rec("lastDelivery",
             IF Mounted /\ Classify(m) \in {"info", "infoError"}
             THEN Some([ info |-> Get(m.data.body.info),
                         before |-> [ playerState |-> playerState,
                                      isMuted |-> isMuted,
                                      volume |-> volume,
                                      hasConnectionError |-> hasConnectionError,
                                      optimistic |-> optimistic ] ])
             ELSE None,
             lastDelivery)
    /\ UNCHANGED <<videoConfig, bgVars, effectVars, recorded, kickCount,
                   error>>

(***************************************************************************)
(* The kickstart timeout fires.                                             *)
(***************************************************************************)
kickstartCallback == sendCommand("playVideo", << >>)

\* Mutant: the timeout gives up on a connection that is not established.
KickstartFiresAsTimeout ==
    /\ timer = "pending"
    /\ timer' = "idle"
    /\ hasConnectionError' = (hasConnectionError \/ ~isApiConnected)
    /\ last' = Rec("last",
                   Step("kickstart", IF cancelDue THEN "stale" ELSE "",
                        kickstartCallback, FALSE),
                   last)
    /\ kickCount' =
         Rec("kickCount",
             IF kickstartCallback # << >> /\ kickCount < MaxKicks
             THEN kickCount + 1 ELSE kickCount,
             kickCount)
    /\ cancelDue' = FALSE
    /\ scenario' =
         Rec("scenario",
             IF scenario.on
             THEN [scenario EXCEPT !.fired = TRUE,
                                   !.plays = @ + Len(kickstartCallback)]
             ELSE scenario,
             scenario)
    /\ lastDelivery' = None
    /\ UNCHANGED error
    /\ UNCHANGED <<videoConfig, playerState, volume, isMuted, isApiConnected,
                   bgVars, phase, listener, kickDeps, subscriptions,
                   recorded, errorSeen, firstPending, optimistic, refLifecycle>>

KickstartFires ==
    /\ timer = "pending"
    /\ timer' = "idle"
    /\ last' = Rec("last",
                   Step("kickstart", IF cancelDue THEN "stale" ELSE "",
                        kickstartCallback, FALSE),
                   last)
    /\ kickCount' =
         Rec("kickCount",
             IF kickstartCallback # << >> /\ kickCount < MaxKicks
             THEN kickCount + 1 ELSE kickCount,
             kickCount)
    /\ cancelDue' = FALSE
    /\ scenario' =
         Rec("scenario",
             IF scenario.on
             THEN [scenario EXCEPT !.fired = TRUE,
                                   !.plays = @ + Len(kickstartCallback)]
             ELSE scenario,
             scenario)
    /\ lastDelivery' = None
    /\ UNCHANGED error
    /\ UNCHANGED <<appVars, bgVars, phase, listener, kickDeps, subscriptions,
                   recorded, errorSeen, firstPending, optimistic, refLifecycle>>

(***************************************************************************)
(* User actions.  The control bar is rendered while !hasConnectionError;    *)
(* the overlay takes clicks while !allowDirectInteraction; Force Play is    *)
(* enabled while !hasConnectionError.                                       *)
(***************************************************************************)
togglePlayback ==
    /\ playerState' = IF isPlaying THEN Paused ELSE Playing
    /\ last' = Rec("last",
                   Step("togglePlayback", states(playerState),
                        IF isPlaying THEN sendCommand("pauseVideo", << >>)
                        ELSE sendCommand("playVideo", << >>), FALSE),
                   last)
    /\ optimistic' = Rec("optimistic", TRUE, optimistic)
    /\ refLifecycle' = Rec("refLifecycle", playerState', refLifecycle)
    /\ scenario' = ScenarioOff
    /\ lastDelivery' = None
    /\ UNCHANGED error
    /\ UNCHANGED <<videoConfig, volume, isMuted, hasConnectionError,
                   isApiConnected, bgVars, effectVars, recorded,
                   errorSeen, firstPending, kickCount, cancelDue>>

PlayPauseButton ==
    /\ Mounted
    /\ ~hasConnectionError
    /\ togglePlayback

\* With no onTogglePlay the overlay would post playVideo and unMute itself;
\* App leaves onTogglePlay out only while useFallback, and then the overlay
\* has no click handler.
handleBackdropClick ==
    /\ Mounted
    /\ ~allowDirectInteraction
    /\ IF onTogglePlayDefined
       THEN togglePlayback
       ELSE /\ last' = Rec("last",
                           Step("handleBackdropClick", "",
                                sendCommand("playVideo", << >>)
                                  \o sendCommand("unMute", << >>), FALSE),
                           last)
            /\ scenario' = ScenarioOff
            /\ lastDelivery' = None
            /\ UNCHANGED error
            /\ UNCHANGED <<appVars, bgVars, effectVars, recorded, errorSeen,
                           firstPending, optimistic, refLifecycle, kickCount,
                           cancelDue>>

toggleMute ==
    /\ Mounted
    /\ ~hasConnectionError
    /\ isMuted' = ~isMuted
    /\ last' = Rec("last",
                   Step("toggleMute", "",
                        IF isMuted THEN sendCommand("unMute", << >>)
                        ELSE sendCommand("mute", << >>), FALSE),
                   last)
    /\ scenario' = ScenarioOff
    /\ lastDelivery' = None
    /\ UNCHANGED error
    /\ UNCHANGED <<videoConfig, playerState, volume, hasConnectionError,
                   isApiConnected, bgVars, effectVars, recorded, errorSeen,
                   firstPending, optimistic, refLifecycle, kickCount, cancelDue>>

\* Mutant: a muted player is unmuted whatever the new volume.
handleVolumeChangeAlwaysUnmutes(newVol) ==
    /\ Mounted
    /\ ~hasConnectionError
    /\ volume' = newVol
    /\ isMuted' = FALSE
    /\ last' = Rec("last",
                   Step("handleVolumeChange", "",
                        sendCommand("setVolume", <<newVol>>)
                          \o (IF isMuted
                              THEN sendCommand("unMute", << >>) ELSE << >>),
                        FALSE),
                   last)
    /\ scenario' = ScenarioOff
    /\ lastDelivery' = None
    /\ UNCHANGED error
    /\ UNCHANGED <<videoConfig, playerState, hasConnectionError,
                   isApiConnected, bgVars, effectVars, recorded, errorSeen,
                   firstPending, optimistic, refLifecycle, kickCount, cancelDue>>

handleVolumeChange(newVol) ==
    /\ Mounted
    /\ ~hasConnectionError
    /\ volume' = newVol
    /\ isMuted' = IF newVol > 0 /\ isMuted THEN FALSE ELSE isMuted
    /\ last' = Rec("last",
                   Step("handleVolumeChange", "",
                        sendCommand("setVolume", <<newVol>>)
                          \o (IF newVol > 0 /\ isMuted
                              THEN sendCommand("unMute", << >>) ELSE << >>),
                        FALSE),
                   last)
    /\ scenario' = ScenarioOff
    /\ lastDelivery' = None
    /\ UNCHANGED error
    /\ UNCHANGED <<videoConfig, playerState, hasConnectionError,
                   isApiConnected, bgVars, effectVars, recorded, errorSeen,
                   firstPending, optimistic, refLifecycle, kickCount, cancelDue>>

ForcePlay ==
    /\ Mounted
    /\ ~hasConnectionError
    /\ last' = Rec("last",
                   Step("ForcePlay", "", sendCommand("playVideo", << >>), FALSE),
                   last)
    /\ scenario' = ScenarioOff
    /\ lastDelivery' = None
    /\ UNCHANGED error
    /\ UNCHANGED <<appVars, bgVars, effectVars, recorded, errorSeen,
                   firstPending, optimistic, refLifecycle, kickCount, cancelDue>>

(***************************************************************************)
(* A new video request, and teardown.                                       *)
(***************************************************************************)
\* Mutant: a request resets the fallback flag along with the lifecycle.
onVideoChangeResetsFallback(id, autoplayArg) ==
    /\ Mounted
    /\ videoConfig' = [id |-> id, autoplay |-> autoplayArg]
    /\ playerState' = Unstarted
    /\ hasConnectionError' = FALSE
    /\ last' = Rec("last", Step("onVideoChange", "", << >>, FALSE), last)
    /\ optimistic' = FALSE
    /\ refLifecycle' = Rec("refLifecycle", Unstarted, refLifecycle)
    /\ cancelDue' =
         Rec("cancelDue",
             cancelDue \/ (timer = "pending" /\ videoConfig' # videoConfig),
             cancelDue)
    /\ scenario' = ScenarioOff
    /\ lastDelivery' = None
    /\ UNCHANGED <<volume, isMuted, isApiConnected,
                   bgVars, effectVars, recorded, errorSeen, firstPending,
                   kickCount>>

onVideoChange(id, autoplayArg) ==
    /\ Mounted
    /\ videoConfig' = [id |-> id, autoplay |-> autoplayArg]
    /\ playerState' = Unstarted
    /\ last' = Rec("last", Step("onVideoChange", "", << >>, FALSE), last)
    /\ optimistic' = FALSE
    /\ refLifecycle' = Rec("refLifecycle", Unstarted, refLifecycle)
    /\ cancelDue' =
         Rec("cancelDue",
             cancelDue \/ (timer = "pending" /\ videoConfig' # videoConfig),
             cancelDue)
    /\ scenario' = ScenarioOff
    /\ lastDelivery' = None
    /\ UNCHANGED <<volume, isMuted, hasConnectionError, isApiConnected,
                   bgVars, effectVars, recorded, errorSeen, firstPending,
                   kickCount>>

(***************************************************************************)
(* The input bar.  What is typed is a bare identifier, one of the link      *)
(* forms, blank, or other text; the identifier in it has the eleven         *)
(* characters of one, or is a character short, or has characters after it.  *)
(***************************************************************************)
Forms == {"blank", "id", "youtu.be", "watch", "shorts", "embed", "text"}
Lengths == {"short", "exact", "long"}
Inputs == [form : Forms, id : VideoIds, length : Lengths]

\* Mutant: the input is submitted as typed.
trimMissing(inputValue) == "text"

\* inputValue.trim()
trim(inputValue) == IF inputValue.form = "blank" THEN "" ELSE "text"

\* The identifier a string resolves to, or null (None).  1: the bare
\* identifier.  2: the parsed link, by host and path.  3: the fallback
\* pattern, which knows youtu.be/, embed/ and watch? (not shorts/) and
\* cuts what follows the marker to eleven characters.
extractVideoId(url) ==
    IF url.form = "blank" THEN None
    ELSE IF url.form = "text" THEN None
    ELSE IF url.length = "exact" THEN Some(url.id)
    ELSE IF url.form \in {"youtu.be", "watch", "embed"} /\ url.length = "long"
    THEN Some(url.id)
    ELSE None

\* setError('Invalid YouTube URL. Please try again.')
InvalidUrl == "Invalid YouTube URL. Please try again."

\* InputBar's submit handler: setError(null) first; nothing more for a blank
\* input; onVideoChange(newId), with no second argument, for one that
\* resolves; the error message for one that does not.
\* inputValue is what the field holds at the submission; typing into the
\* field (handleChange) has cleared an error shown before.
handleSubmit(inputValue) ==
    IF trim(inputValue) # "" /\ Present(extractVideoId(inputValue))
    THEN /\ onVideoChange(Get(extractVideoId(inputValue)), "undefined")
         /\ error' = None
    ELSE /\ Mounted
         /\ error' = IF trim(inputValue) = "" THEN None ELSE Some(InvalidUrl)
         /\ last' = Rec("last",
                        Step("handleSubmit", inputValue.form, << >>, FALSE),
                        last)
         /\ scenario' = ScenarioOff
         /\ lastDelivery' = None
         /\ UNCHANGED <<appVars, bgVars, effectVars, recorded, errorSeen,
                        firstPending, optimistic, refLifecycle, kickCount,
                        cancelDue>>

\* The tree is removed: the components' state is gone (the variables take
\* their initial values), the iframe is gone; the effects' cleanups are
\* still to run.
Unmount ==
    /\ Mounted
    /\ phase' = "unmounted"
    /\ videoConfig' = InitialConfig
    /\ playerState' = Unstarted
    /\ volume' = InitialVolume
    /\ isMuted' = FALSE
    /\ hasConnectionError' = FALSE
    /\ currentVideoId' = DefaultVideoId
    /\ isSandboxed' = FALSE
    /\ last' = Rec("last", Step("Unmount", "", << >>, FALSE), last)
    /\ cancelDue' = Rec("cancelDue", cancelDue \/ timer = "pending", cancelDue)
    /\ errorSeen' = FALSE
    /\ firstPending' = FALSE
    /\ optimistic' = FALSE
    /\ refLifecycle' = Unstarted
    /\ kickCount' = 0
    /\ scenario' = NoScenario
    /\ lastDelivery' = None
    /\ error' = None
    /\ UNCHANGED <<isApiConnected, sandboxedEnvironment, listener, kickDeps,
                   timer, subscriptions, recorded>>

(***************************************************************************)
(* Spec: requests, fallback and kickstart.  Every operation that touches    *)
(* the request, the subscription or the timer, under the control traffic.   *)
(***************************************************************************)
ControlHistory == {"last", "errorSeen", "firstPending", "optimistic",
                   "kickCount", "cancelDue", "scenario"}

Init == InitState /\ recorded = ControlHistory

Next ==
    \/ RunEffects
    \/ \E m \in ControlMessages : handleMessage(m)
    \/ KickstartFires
    \/ PlayPauseButton
    \/ \E id \in VideoIds, a \in {"true", "false"} :
          onVideoChange(id, a) /\ UNCHANGED error
    \/ Unmount

Spec == Init /\ [][Next]_vars

(***************************************************************************)
(* SpecMessages: the processing of inbound messages and user actions of     *)
(* one request, under every message.                                        *)
(***************************************************************************)
MessageHistory == {"last", "optimistic", "refLifecycle"}

InitMessages == InitState /\ recorded = MessageHistory

NextMessages ==
    \/ RunEffects
    \/ \E m \in Messages : handleMessage(m)
    \/ KickstartFires
    \/ PlayPauseButton
    \/ handleBackdropClick
    \/ toggleMute
    \/ \E v \in Volumes : handleVolumeChange(v)
    \/ ForcePlay

SpecMessages == InitMessages /\ [][NextMessages]_vars

(***************************************************************************)
(* SpecWire: the infoDelivery fields as the wire may carry them, each       *)
(* present or not, in and out of range, with the controls that write the    *)
(* same state.                                                              *)
(***************************************************************************)
WireHistory == {"last", "optimistic", "lastDelivery"}

InitWire == InitState /\ recorded = WireHistory

NextWire ==
    \/ RunEffects
    \/ \E m \in WireMessages : handleMessage(m)
    \/ PlayPauseButton
    \/ toggleMute
    \/ \E v \in Volumes : handleVolumeChange(v)

SpecWire == InitWire /\ [][NextWire]_vars

(***************************************************************************)
(* SpecInput: requests as the input bar submits them, with the volume       *)
(* controls and the control traffic.                                        *)
(***************************************************************************)
InputHistory == {"last", "firstPending"}

InitInput == InitState /\ recorded = InputHistory

NextInput ==
    \/ RunEffects
    \/ \E m \in ControlMessages : handleMessage(m)
    \/ KickstartFires
    \/ toggleMute
    \/ \E v \in Volumes : handleVolumeChange(v)
    \/ \E inputValue \in Inputs : handleSubmit(inputValue)

SpecInput == InitInput /\ [][NextInput]_vars

(***************************************************************************)
(* Properties.                                                              *)
(***************************************************************************)
PlayerStateVars ==
    <<playerState, isMuted, volume, isApiConnected, hasConnectionError>>

\* C1: once the listener of the current request has processed an
\* infoDelivery carrying an error code, hasConnectionError stays true until
\* the request changes, whatever onReady and initialDelivery messages follow.
C1_FallbackSticky == (Mounted /\ errorSeen) => hasConnectionError

\* C2: when the listener attached for a new request is about to process its
\* first message (and the user has not pressed play/pause in between),
\* playerState is Unstarted and hasConnectionError is false.
C2_ResetBeforeFirstMessage ==
    (firstPending /\ ~optimistic) =>
        (playerState = Unstarted /\ ~hasConnectionError)

\* C3: with no user play/pause in between, playerState is the playerState
\* field of the last processed infoDelivery that carried one; a message
\* without the field leaves it as it was.
C3_LifecycleFollowsReports == Mounted => playerState = refLifecycle

C3_Witness ==
    /\ last.op = "handleMessage" /\ last.cls = "infoError"
    /\ playerState = Cued /\ isMuted /\ volume = 0

\* C4: the overlay lets clicks through exactly when fallback is forced, or
\* the sandbox is detected, or autoplay is not requested.
C4_ModeTruthTable ==
    Mounted =>
        ((InteractionMode = "PassThrough")
            <=> (hasConnectionError \/ isSandboxed \/ ~autoplay))

\* C5: a message whose origin does not contain 'youtube' changes no field of
\* the player state and posts no command, whatever its payload.
C5_ForeignOriginIgnored ==
    [][ (last'.op = "handleMessage" /\ last'.cls = "foreign")
            => (UNCHANGED PlayerStateVars /\ last'.cmds = << >>) ]_vars

C5_Witness ==
    /\ last.op = "handleMessage" /\ last.cls = "foreign"
    /\ playerState = Paused /\ isApiConnected

\* C6: a trusted message that does not parse, has no recognised event kind
\* or is an infoDelivery without info changes no field of the player state,
\* posts no command, lets no exception out of the handler and leaves the
\* listener subscribed.
C6_DiscardedSilently ==
    [][ (last'.op = "handleMessage"
            /\ last'.cls \in {"malformed", "unknown", "noInfo"})
            => /\ UNCHANGED PlayerStateVars
               /\ last'.cmds = << >>
               /\ ~last'.threw
               /\ listener' = listener /\ listener.attached ]_vars

C6_Witness ==
    /\ last.op = "handleMessage" /\ last.cls = "malformed"
    /\ isApiConnected /\ playerState = Playing /\ listener.attached

\* C7: after an infoDelivery carrying an error code is processed,
\* hasConnectionError is true, the overlay lets clicks through and the
\* iframe's locator is the one of getSimpleEmbedUrl.
C7_ErrorForcesFallback ==
    (Mounted /\ last.op = "handleMessage" /\ last.cls = "infoError")
        => /\ hasConnectionError
           /\ InteractionMode = "PassThrough"
           /\ embedUrl = getSimpleEmbedUrl(currentVideoId)

C7_Witness ==
    /\ last.op = "handleMessage" /\ last.cls = "infoError"
    /\ isApiConnected /\ playerState = Buffering /\ ~isSandboxed
    /\ hasConnectionError

\* C8: the kickstart timer posts playVideo at most once per request.
C8_KickstartAtMostOnce == kickCount <= 1

\* C9: a timer that was pending when the request changed, the tree was torn
\* down or fallback became forced posts no playVideo afterwards.
C9_StaleTimerNeverDispatches ==
    (last.op = "kickstart" /\ last.cls = "stale") => last.cmds = << >>

C11_HandshakeScenario ==
    scenario.on =>
        /\ InteractionMode = "Intercepted"
        /\ scenario.ready => isApiConnected
        /\ (scenario.ready /\ scenario.fired) => scenario.plays = 1

\* C12: one call of sendCommand posts the one envelope {event: 'command',
\* func, args} and returns true while the iframe is there, and posts
\* nothing and returns false while it is not; once the iframe is gone no
\* step posts a command, so none that was refused is delivered later.
C12_SendCommandOutcome ==
    /\ \A f \in {"playVideo", "pauseVideo"} :
          sendCommandResult(f, << >>) =
             IF IframePresent
             THEN [posted |-> << Command(f, << >>) >>, returned |-> TRUE]
             ELSE [posted |-> << >>, returned |-> FALSE]
    /\ (last.op = "handleMessage" /\ last.cls = "onReady"
          /\ listener.autoplay = "true")
          => last.cmds = IF IframePresent
                         THEN << Command("playVideo", << >>) >> ELSE << >>
    /\ ~IframePresent => last.cmds = << >>

C12_Witness ==
    /\ ~IframePresent /\ listener.attached /\ listener.autoplay = "true"
    /\ last.op = "handleMessage" /\ last.cls = "onReady"
    /\ last.cmds = << >>

\* C13: at most one handler is registered on window at any time, it is
\* there exactly while a run of the listener effect awaits its cleanup, and
\* none is left once the cleanups of the unmounted tree have run.
C13_OneSubscription ==
    /\ subscriptions \in {0, 1}
    /\ subscriptions = 1 <=> listener.attached
    /\ phase = "live" => subscriptions = 1
    /\ phase = "gone" => subscriptions = 0

C13_Witness ==
    /\ phase = "gone" /\ subscriptions = 0
    /\ listener.id # DefaultVideoId /\ listener.autoplay = "false"

\* C14: an infoDelivery that carries an error code and a playerState leaves
\* playerState as it was before the message and sets hasConnectionError.
C14_ErrorKeepsLifecycle ==
    (/\ Present(lastDelivery)
     /\ Present(Get(lastDelivery).info.error)
     /\ Present(Get(lastDelivery).info.playerState))
        => /\ playerState = Get(lastDelivery).before.playerState
           /\ hasConnectionError

\* C15: once the request has changed, the listener subscribed for the
\* previous request changes no player state and posts no command, and the
\* timer scheduled for the previous request posts no command.
C15_NoStaleListenerOrTimer ==
    [][ /\ (/\ Mounted /\ last'.op = "handleMessage"
            /\ <<listener.id, listener.autoplay>>
                  # <<videoConfig.id, videoConfig.autoplay>>)
              => (UNCHANGED PlayerStateVars /\ last'.cmds = << >>)
        /\ (/\ last'.op = "kickstart"
            /\ <<kickDeps.currentVideoId, kickDeps.autoplay>>
                  # <<videoConfig.id, autoplay>>)
              => last'.cmds = << >> ]_vars

\* C16: an infoDelivery that carries a playerState and is processed after
\* togglePlayback wrote playerState sets playerState to the reported value,
\* whatever togglePlayback had written.
C16_OptimisticOverwritten ==
    (/\ Present(lastDelivery)
     /\ Get(lastDelivery).before.optimistic
     /\ Present(Get(lastDelivery).info.playerState))
        => playerState = Get(Get(lastDelivery).info.playerState)

C16_Witness ==
    /\ Present(lastDelivery)
    /\ Get(lastDelivery).before.optimistic
    /\ Get(lastDelivery).before.playerState = Playing
    /\ Get(lastDelivery).info.playerState = Some(Paused)
    /\ playerState = Paused

\* C17: togglePlayback posts pauseVideo and writes Paused when playerState
\* was Playing or Buffering, and posts playVideo and writes Playing when it
\* was Unstarted, Ended, Paused or Cued.
C17_TogglePlayback ==
    last.op = "togglePlayback" =>
        IF last.cls \in {"Playing", "Buffering"}
        THEN /\ playerState = Paused
             /\ last.cmds = << Command("pauseVideo", << >>) >>
        ELSE /\ last.cls \in {"Unstarted", "Ended", "Paused", "Cued"}
             /\ playerState = Playing
             /\ last.cmds = << Command("playVideo", << >>) >>

C17_Witness ==
    last.op = "togglePlayback" /\ last.cls = "Ended" /\ playerState = Playing

\* C18: playerState is one of -1, 0, 1, 2, 3, 5 and volume is in 0..100 in
\* every reachable state, whatever the accepted messages report.
C18_TypedPlayerState == playerState \in Lifecycles /\ volume \in 0..100

\* C19: an accepted infoDelivery sets isMuted to its muted field when it
\* has one and leaves it alone when not, and the same for volume, whichever
\* other fields it has.
C19_MutedVolumeIffPresent ==
    Present(lastDelivery) =>
        LET d == Get(lastDelivery)
        IN  /\ isMuted = IF Present(d.info.muted)
                         THEN Get(d.info.muted) ELSE d.before.isMuted
            /\ volume = IF Present(d.info.volume)
                        THEN Get(d.info.volume) ELSE d.before.volume

C19_Witness ==
    /\ Present(lastDelivery)
    /\ Get(lastDelivery).info.muted = None
    /\ Get(lastDelivery).info.volume = Some(150)
    /\ Present(Get(lastDelivery).info.playerState)
    /\ Get(lastDelivery).before.isMuted /\ Get(lastDelivery).before.volume = 0
    /\ isMuted /\ volume = 150

C21_ConnectionEstablished ==
    [][ /\ (~isApiConnected /\ isApiConnected') =>
              /\ last'.op = "handleMessage"
              /\ last'.cls \in {"onReady", "initialDelivery"}
        /\ (last'.op = "handleMessage"
              /\ last'.cls \in {"onReady", "initialDelivery"}) =>
              isApiConnected'
        /\ (last'.op = "handleMessage"
              /\ last'.cls \in {"info", "infoError", "noInfo"}) =>
              isApiConnected' = isApiConnected
        /\ (isApiConnected /\ ~isApiConnected') =>
              last'.op = "RunEffects" /\ RunsListenerEffect
        /\ (last'.op = "RunEffects" /\ RunsListenerEffect) =>
              ~isApiConnected' ]_vars

\* An initialDelivery has just established the connection of a request
\* that replaced the one of the mount.
C21_Witness ==
    /\ phase = "live" /\ ~EffectsPending
    /\ listener.id # DefaultVideoId
    /\ last.op = "handleMessage" /\ last.cls = "initialDelivery"
    /\ isApiConnected

\* C22: right after a request that changes the id or the autoplay flag the
\* lifecycle is Unstarted, muted is false and volume is 100, and once the
\* effects of the change have run, and before any message, the connection
\* is not established and fallback is not forced.
C22_RequestChangeResets ==
    /\ (last.op = "onVideoChange" /\ phase = "live" /\ RunsListenerEffect) =>
          /\ playerState = Unstarted
          /\ isMuted = FALSE
          /\ volume = InitialVolume
    /\ (last.op = "RunEffects" /\ phase = "live" /\ firstPending) =>
          /\ ~isApiConnected
          /\ ~hasConnectionError

\* C23: isSandboxed takes the answer of isSandboxedEnvironment() when the
\* effects of the mount run, and no step of the mounted component changes
\* it afterwards.
C23_SandboxDetectedOnce ==
    [][ /\ (phase = "mounting" /\ phase' = "live") =>
              isSandboxed' = sandboxedEnvironment
        /\ (phase = "live" /\ phase' = "live") =>
              isSandboxed' = isSandboxed ]_vars

\* Inside a sandbox, after a request change, an error code has forced
\* fallback: the detected value is as the mount left it.
C23_Witness ==
    /\ phase = "live" /\ ~EffectsPending
    /\ isSandboxed
    /\ videoConfig.id # DefaultVideoId
    /\ last.op = "handleMessage" /\ last.cls = "infoError"
    /\ hasConnectionError

\* C24: a step that is neither the processing of an accepted message nor a
\* user action (the kickstart timer firing, a message of a foreign origin,
\* the effects of the mount or of a fallback change) changes no field of
\* PlayerState; the timer firing posts the one playVideo.
C24_NoTimeoutTransition ==
    [][ ( /\ Mounted
          /\ \/ last'.op = "kickstart"
             \/ last'.op = "handleMessage" /\ last'.cls = "foreign"
             \/ /\ last'.op = "RunEffects"
                /\ ~(phase = "live" /\ RunsListenerEffect) )
        => /\ UNCHANGED PlayerStateVars
           /\ last'.op = "kickstart" =>
                 last'.cmds = << Command("playVideo", << >>) >> ]_vars

\* The timer has fired and posted playVideo before any message was
\* processed: the state is the one of the mount.
C24_Witness ==
    /\ phase = "live" /\ firstPending
    /\ last.op = "kickstart" /\ last.cmds # << >>
    /\ playerState = Unstarted /\ ~isApiConnected /\ ~hasConnectionError

\* C25: while fallback is forced the locator of the iframe shows the native
\* controls and does not enable the API; outside fallback and outside a
\* sandbox it enables the API and hides the native controls.
C25_LocatorByMode ==
    phase = "live" =>
        /\ useFallback =>
              /\ embedUrl.controls = "1"
              /\ embedUrl.enablejsapi # Some("1")
        /\ (~useFallback /\ ~isSandboxed) =>
              /\ embedUrl.enablejsapi = Some("1")
              /\ embedUrl.controls = "0"

\* C26: the autoplay flag the Ready handler reads, videoConfig.autoplay
\* taken as a condition, is the autoplay prop VideoBackground reads.
C26_OneAutoplayFlag ==
    Mounted => (Truthy(videoConfig.autoplay) <=> autoplay)

\* C27: a request whose id and autoplay flag are those of the current one
\* sets the lifecycle to Unstarted and leaves hasConnectionError,
\* isApiConnected, the subscription and the kickstart timer as they were,
\* and makes no effect due that was not due before.
C27_SameRequestResetsLifecycleOnly ==
    [][ (last'.op = "onVideoChange" /\ videoConfig' = videoConfig) =>
          /\ playerState' = Unstarted
          /\ UNCHANGED <<hasConnectionError, isApiConnected, listener,
                         subscriptions, timer, kickDeps>>
          /\ RunsListenerEffect' = RunsListenerEffect
          /\ RunsKickstartEffect' = RunsKickstartEffect ]_vars

\* The current request was submitted again while the connection was
\* established, the video playing a moment ago and the timer pending:
\* nothing is due.
C27_Witness ==
    /\ phase = "live" /\ ~EffectsPending
    /\ last.op = "onVideoChange"
    /\ playerState = Unstarted
    /\ isApiConnected /\ timer = "pending"

\* C28: while hasConnectionError is true the overlay lets clicks through,
\* onTogglePlay is not handed to VideoBackground, and no step is a user
\* action that posts a command.
C28_NoUserCommandInFallback ==
    [][ hasConnectionError =>
          /\ InteractionMode = "PassThrough"
          /\ ~onTogglePlayDefined
          /\ last'.op \notin {"togglePlayback", "handleBackdropClick",
                              "toggleMute", "handleVolumeChange",
                              "ForcePlay"} ]_vars

\* Outside a sandbox an error code has just forced fallback while the
\* video was playing.
C28_Witness ==
    /\ phase = "live" /\ ~isSandboxed
    /\ hasConnectionError
    /\ last.op = "handleMessage" /\ last.cls = "infoError"
    /\ playerState = Playing

\* C29: a step that processes an inbound message posts exactly one
\* playVideo when the message is an accepted onReady and the listener's
\* request asks for autoplay, and posts nothing in every other case
\* (infoDelivery, initialDelivery, onReady without autoplay, discarded).
C29_OnlyReadyDispatches ==
    (last.op = "handleMessage" /\ IframePresent) =>
        last.cmds = IF last.cls = "onReady" /\ Truthy(listener.autoplay)
                    THEN << Command("playVideo", << >>) >>
                    ELSE << >>

\* An initialDelivery was processed under an autoplay request and posted
\* nothing.
C29_Witness ==
    /\ phase = "live" /\ ~EffectsPending
    /\ Truthy(listener.autoplay)
    /\ last.op = "handleMessage" /\ last.cls = "initialDelivery"
    /\ last.cmds = << >>

\* C30: toggleMute flips isMuted and posts unMute when it was muted and
\* mute when it was not; handleVolumeChange stores the new volume and posts
\* setVolume with it, and when the new volume is above 0 and isMuted was
\* true it also clears isMuted and posts unMute, and otherwise leaves
\* isMuted alone; neither changes the lifecycle, isApiConnected or
\* hasConnectionError.
C30_MuteAndVolume ==
    [][ /\ last'.op = "toggleMute" =>
              /\ isMuted' = ~isMuted
              /\ last'.cmds =
                   << Command(IF isMuted THEN "unMute" ELSE "mute", << >>) >>
              /\ UNCHANGED <<volume, playerState, isApiConnected,
                             hasConnectionError>>
        /\ last'.op = "handleVolumeChange" =>
              /\ volume' \in Volumes
              /\ last'.cmds[1] = Command("setVolume", << volume' >>)
              /\ IF volume' > 0 /\ isMuted
                 THEN /\ ~isMuted'
                      /\ last'.cmds = << Command("setVolume", << volume' >>),
                                         Command("unMute", << >>) >>
                 ELSE /\ isMuted' = isMuted
                      /\ Len(last'.cmds) = 1
              /\ UNCHANGED <<playerState, isApiConnected,
                             hasConnectionError>> ]_vars

\* The slider was moved to 0 while muted: the volume is 0 and the player
\* is still muted.
C30_Witness ==
    /\ last.op = "handleVolumeChange"
    /\ volume = 0 /\ isMuted
    /\ Len(last.cmds) = 1

\* C31: a submission of a blank input, or of one the resolver returns null
\* for, leaves the request, PlayerState, the subscription, the kickstart
\* timer and what the effects depend on unchanged; the blank one leaves no
\* error in the input bar and the other sets the error message; and the
\* request changes only in an onVideoChange step, to an identifier that is
\* the resolver's non-null result for some input.
C31_RejectedSubmission ==
    [][ /\ last'.op = "handleSubmit" =>
              /\ UNCHANGED <<videoConfig, PlayerStateVars, currentVideoId,
                             listener, subscriptions, timer, kickDeps>>
              /\ last'.cmds = << >>
              /\ \E l \in Lengths, id \in VideoIds :
                    LET typed == [form |-> last'.cls, id |-> id, length |-> l]
                    IN  typed \in Inputs /\ ~Present(extractVideoId(typed))
              /\ error' = IF last'.cls = "blank" THEN None
                          ELSE Some(InvalidUrl)
        /\ videoConfig' # videoConfig =>
              /\ last'.op = "onVideoChange"
              /\ error' = None
              /\ \E typed \in Inputs :
                    /\ typed.form # "blank"
                    /\ extractVideoId(typed) = Some(videoConfig'.id) ]_vars

\* A youtu.be link with a ten-character identifier was submitted while the
\* connection was established and the timer pending: the error is shown.
C31_Witness ==
    /\ phase = "live" /\ ~EffectsPending
    /\ last.op = "handleSubmit" /\ last.cls = "youtu.be"
    /\ error = Some(InvalidUrl)
    /\ isApiConnected /\ timer = "pending"

=============================================================================
